---- MODULE Spec2Model ----
(***************************************************************************)
(* gemtext2md: a Gemtext to Markdown filter (src/src/main.rs).             *)
(*                                                                         *)
(* Strings are sequences of one-character strings, so that prefix          *)
(* matching, trimming, splitting and slicing are computed as the code      *)
(* computes them.  The five stage threads of main are processes that       *)
(* communicate over four unbounded FIFO channels.                          *)
(***************************************************************************)
EXTENDS Integers, Sequences, FiniteSets, TLC

(***************************************************************************)
(* Bounds of the model.                                                    *)
(***************************************************************************)
MaxStrLen == 6      \* longest string handed to the classifier on its own
MaxLines == 3       \* longest document drawn from LinePool

(***************************************************************************)
(* Characters and strings.                                                 *)
(***************************************************************************)
NL == "\n"
SP == " "
GRAVE == "GRAVE"    \* the grave accent U+0060, which a TLA+ string cannot hold

\* char::is_whitespace, restricted to the characters of the model
IsWhitespace(c) == c \in {" ", "\n", "\t"}

RECURSIVE StringsUpTo(_, _)
StringsUpTo(A, n) ==
    IF n = 0 THEN {<< >>}
    ELSE LET S == StringsUpTo(A, n - 1)
         IN  S \cup {Append(s, c) : s \in {t \in S : Len(t) = n - 1}, c \in A}

StartsWith(s, p) == Len(s) >= Len(p) /\ SubSeq(s, 1, Len(p)) = p

RECURSIVE TrimStart(_)
TrimStart(s) ==
    IF s # << >> /\ IsWhitespace(Head(s)) THEN TrimStart(Tail(s)) ELSE s

RECURSIVE TrimEnd(_)
TrimEnd(s) ==
    IF s # << >> /\ IsWhitespace(s[Len(s)])
    THEN TrimEnd(SubSeq(s, 1, Len(s) - 1)) ELSE s

\* fn trim: s.trim()
trim(s) == TrimEnd(TrimStart(s))

\* str::splitn(n, " "): at most n fields, cut at the first n-1 spaces
RECURSIVE splitn(_, _)
splitn(n, s) ==
    IF n <= 1 \/ ~(\E i \in 1..Len(s) : s[i] = SP) THEN <<s>>
    ELSE LET i == CHOOSE j \in 1..Len(s) :
                     s[j] = SP /\ \A k \in 1..(j - 1) : s[k] # SP
         IN  <<SubSeq(s, 1, i - 1)>> \o splitn(n - 1, SubSeq(s, i + 1, Len(s)))

\* [String]::join(sep)
RECURSIVE join(_, _)
join(ss, sep) ==
    IF ss = << >> THEN << >>
    ELSE IF Len(ss) = 1 THEN ss[1]
    ELSE ss[1] \o sep \o join(Tail(ss), sep)

(***************************************************************************)
(* The data model: enum Malformed, Heading, Link, Line, Block.             *)
(***************************************************************************)
None == << >>
Some(x) == <<x>>

Link(url, tag) == [url |-> url, tag |-> tag]
Heading(level, text) == [level |-> level, text |-> text]

PreformattedL(ls) == [tag |-> "PreformattedL", lines |-> ls]
ParaL(p) == [tag |-> "ParaL", text |-> p]
LinkL(l) == [tag |-> "LinkL", link |-> l]
HeadingL(h) == [tag |-> "HeadingL", heading |-> h]
BlankL == [tag |-> "BlankL"]
MalformedL(m) == [tag |-> "MalformedL", kind |-> m]

PreformattedB(ls) == [tag |-> "PreformattedB", lines |-> ls]
ParaB(p) == [tag |-> "ParaB", text |-> p]
LinksB(ll) == [tag |-> "LinksB", links |-> ll]
HeadingB(h) == [tag |-> "HeadingB", heading |-> h]

\* the outcome of an expression that panics instead of yielding a value
Panics == [tag |-> "panic"]

(***************************************************************************)
(* The classifier: Line::from, link_of_line, make_heading.                 *)
(***************************************************************************)
link_of_line(line) ==
    LET parts == splitn(3, line)
    IN  IF Len(parts) = 2 /\ parts[1] = <<"=", ">">> /\ parts[2] = << >>
          THEN MalformedL("MLink")
        ELSE IF Len(parts) = 2 /\ parts[1] = <<"=", ">">>
          THEN LinkL(Link(parts[2], None))
        ELSE IF Len(parts) = 3 /\ parts[1] = <<"=", ">">>
          THEN LinkL(Link(parts[2], Some(parts[3])))
        ELSE MalformedL("MLink")

\* a make_heading that slices the line as it came, not the trimmed line
make_heading_untrimmed(s, level, offset) ==
    IF offset > Len(s) THEN Panics
    ELSE HeadingL(Heading(level, SubSeq(s, offset + 1, Len(s))))

\* &trimmed[offset..] panics when offset is beyond the end of trimmed
make_heading(s, level, offset) ==
    LET trimmed == trim(s)
    IN  IF offset > Len(trimmed) THEN Panics
        ELSE HeadingL(Heading(level, SubSeq(trimmed, offset + 1, Len(trimmed))))

\* impl From<String> for Line: the arms of the match, in order
Line_from(s) ==
    IF s = <<"=", ">">> THEN MalformedL("MLink")
    ELSE IF StartsWith(s, <<"=", ">", " ">>) THEN link_of_line(s)
    ELSE IF StartsWith(s, <<"=", ">">>) THEN MalformedL("MLink")
    ELSE IF s = <<"#", "#", "#">> THEN MalformedL("MHeading")
    ELSE IF s = <<"#", "#", "#", " ">> THEN MalformedL("MHeading")
    ELSE IF StartsWith(s, <<"#", "#", "#", " ">>) THEN make_heading(s, "H3", 4)
    ELSE IF StartsWith(s, <<"#", "#", "#">>) THEN make_heading(s, "H3", 3)
    ELSE IF Len(s) = 3 /\ StartsWith(s, <<"#", "#">>) THEN MalformedL("MHeading")
    ELSE IF s = <<"#", "#">> THEN MalformedL("MHeading")
    ELSE IF StartsWith(s, <<"#", "#", " ">>) THEN make_heading(s, "H2", 3)
    ELSE IF StartsWith(s, <<"#", "#">>) THEN MalformedL("MHeading")
    ELSE IF s = <<"#", " ">> THEN MalformedL("MHeading")
    ELSE IF s = <<"#">> THEN MalformedL("MHeading")
    ELSE IF StartsWith(s, <<"#", " ">>) THEN make_heading(s, "H1", 2)
    ELSE IF StartsWith(s, <<"#">>) THEN MalformedL("MHeading")
    ELSE IF s = << >> THEN BlankL
    ELSE ParaL(trim(s))

(***************************************************************************)
(* The renderer: the Display impls, heading_chars, string_of_links.        *)
(***************************************************************************)
heading_chars(h) ==
    CASE h = "H1" -> <<"#">>
      [] h = "H2" -> <<"#", "#">>
      [] h = "H3" -> <<"#", "#", "#">>

\* impl fmt::Display for Heading: "{} {}"
Heading_fmt(h) == heading_chars(h.level) \o <<SP>> \o h.text

\* a Display for Link with the caption and the url in each other's place
Link_fmt_swapped(l) ==
    LET caption == IF l.tag # None THEN l.tag[1] ELSE l.url
    IN  <<"*", SP, "[">> \o l.url \o <<"]", "(">> \o caption \o <<")", NL>>

\* impl fmt::Display for Link: "* [{}]({})\n"
Link_fmt(l) ==
    LET caption == IF l.tag # None THEN l.tag[1] ELSE l.url
    IN  <<"*", SP, "[">> \o caption \o <<"]", "(">> \o l.url \o <<")", NL>>

RECURSIVE concat(_)
concat(ss) == IF ss = << >> THEN << >> ELSE Head(ss) \o concat(Tail(ss))

\* a string_of_links without its test for the empty list
string_of_links_unguarded(ll) ==
    concat([i \in 1..Len(ll) |-> Link_fmt(ll[i])]) \o <<NL>>

string_of_links(ll) ==
    IF ll = << >> THEN << >>
    ELSE concat([i \in 1..Len(ll) |-> Link_fmt(ll[i])]) \o <<NL>>

\* the fence marker: three grave accents (U+0060)
Fence == <<GRAVE, GRAVE, GRAVE>>

\* impl fmt::Display for Block
Block_fmt(b) ==
    CASE b.tag = "ParaB" -> b.text \o <<NL, NL>>
      [] b.tag = "PreformattedB" ->
             Fence \o <<NL>> \o join(b.lines, <<NL>>) \o <<NL>> \o Fence \o <<NL, NL>>
      [] b.tag = "LinksB" -> string_of_links(b.links)
      [] b.tag = "HeadingB" -> Heading_fmt(b.heading) \o <<NL, NL>>

(***************************************************************************)
(* The inputs.  A document is a sequence of lines; the documents of the    *)
(* model are all sequences of at most MaxLines lines of LinePool (a blank  *)
(* line, a paragraph, two links, a fence marker, a malformed link and a    *)
(* heading whose slice is out of bounds), and the documents of             *)
(* ExampleDocs.                                                            *)
(***************************************************************************)
BlankLine == << >>
ParaLine == <<"p">>
LinkLine == <<"=", ">", " ", "u">>
CaptionLine == <<"=", ">", " ", "v", " ", "c">>
HeadingLine == <<"#", " ", "h">>
FenceLine == Fence
BadLinkLine == <<"=", ">">>
BadHeadingLine == <<"#", "#", "x">>
SliceLine == <<"#", " ", " ">>

LinePool ==
    {BlankLine, ParaLine, LinkLine, CaptionLine, FenceLine, BadLinkLine,
     SliceLine}

\* ["# Title", "", "=> https://example.org Example", "plain text"]
TitleDoc ==
    << <<"#", " ", "T", "i", "t", "l", "e">>,
       << >>,
       <<"=", ">", " ", "h", "t", "t", "p", "s", ":", "/", "/", "e", "x", "a",
         "m", "p", "l", "e", ".", "o", "r", "g", " ", "E", "x", "a", "m", "p",
         "l", "e">>,
       <<"p", "l", "a", "i", "n", " ", "t", "e", "x", "t">> >>

\* two fenced regions separated only by their fence markers, the second open
TwoRegionsDoc == <<FenceLine, <<"a">>, FenceLine, FenceLine, <<"b">> >>

\* two consecutive links, a blank line, a third link
LinksDoc == <<LinkLine, CaptionLine, BlankLine, LinkLine>>

\* a heading, then a malformed heading with a line after it
HeadingsDoc == <<HeadingLine, BadHeadingLine, ParaLine>>

\* two links, a fenced region of two lines, a paragraph
MixedDoc ==
    <<LinkLine, CaptionLine, FenceLine, <<"a">>, <<"b">>, FenceLine, ParaLine>>

\* a fence marker with text after it
InfoFenceLine == Fence \o <<"r">>

InfoFenceDoc == <<InfoFenceLine, BadLinkLine, FenceLine, ParaLine>>

ExampleDocs ==
    {TitleDoc, TwoRegionsDoc, LinksDoc, HeadingsDoc, MixedDoc, InfoFenceDoc}

Docs == StringsUpTo(LinePool, MaxLines) \cup ExampleDocs

\* the characters of the strings handed to the classifier on its own
Alphabet == {"#", " ", "=", ">", "x"}

(***************************************************************************)
(* The state.                                                              *)
(***************************************************************************)
VARIABLES
    stdin,      \* the lines standard input yields before end-of-stream or error
    lineno,     \* read_lines: the enumerate() index of the next item
    ch1,        \* channel read_lines -> gather_preformatted: String
    ch2,        \* channel gather_preformatted -> decode_lines: (bool, String)
    ch3,        \* channel decode_lines -> blocks_of_lines: Line
    ch4,        \* channel blocks_of_lines -> consume_blocks: Block
    st,         \* the state of each thread
    pref,       \* gather_preformatted: let mut pref
    pref_acc,   \* decode_lines: let mut pref_acc
    links,      \* blocks_of_lines: let mut links
    printed,    \* the blocks consume_blocks has printed, in order
    stdout,     \* the text written to standard output
    stderr,     \* the panic message of each thread that panicked
    exit,       \* the exit status of the process, once main has returned
    arg,        \* the string handed to the classifier on its own
    cls,        \* Some(Line::from(arg)), once computed
    shown       \* Some(its rendering), once computed

vars == <<stdin, lineno, ch1, ch2, ch3, ch4, st, pref, pref_acc, links,
          printed, stdout, stderr, exit, arg, cls, shown>>

pipeVars == <<stdin, lineno, ch1, ch2, ch3, ch4, st, pref, pref_acc, links,
              printed, stdout, stderr, exit>>

classVars == <<arg, cls, shown>>

Reader == "read_lines"
Gather == "gather_preformatted"
Decode == "decode_lines"
Blocks == "blocks_of_lines"
Main == "main"

Threads == {Reader, Gather, Decode, Blocks, Main}

\* a thread is running: it holds its Sender and its Receiver
alive(t) == st[t] = "run"

\* panic!: the message goes to standard error and the thread unwinds,
\* dropping its Sender and its Receiver
panic(t, msg) ==
    /\ st' = [st EXCEPT ![t] = "panicked"]
    /\ stderr' = [stderr EXCEPT ![t] = <<msg>>]

\* a closure that returns while its Sender and its Receiver live on
finish_keep(t) == UNCHANGED <<st, stderr>>

\* the thread's closure returns, dropping its Sender and its Receiver
finish(t) ==
    /\ st' = [st EXCEPT ![t] = "done"]
    /\ UNCHANGED stderr

\* Result::unwrap on the Err(SendError) of a send whose Receiver is dropped
SendError == [what |-> "SendError"]

PipeInit ==
    /\ lineno = 0
    /\ ch1 = << >> /\ ch2 = << >> /\ ch3 = << >> /\ ch4 = << >>
    /\ st = [t \in Threads |-> "run"]
    /\ pref = FALSE
    /\ pref_acc = << >>
    /\ links = << >>
    /\ printed = << >>
    /\ stdout = << >>
    /\ stderr = [t \in Threads |-> << >>]
    /\ exit = None

Init ==
    /\ stdin \in Docs
    /\ PipeInit
    /\ arg = << >> /\ cls = None /\ shown = None

(***************************************************************************)
(* read_lines                                                              *)
(***************************************************************************)
\* Ok(l) => tx.send(l).unwrap()
ReadOk ==
    /\ alive(Reader)
    /\ lineno < Len(stdin)
    /\ lineno' = lineno + 1
    /\ IF alive(Gather)
         THEN ch1' = Append(ch1, stdin[lineno + 1]) /\ UNCHANGED <<st, stderr>>
         ELSE panic(Reader, SendError) /\ UNCHANGED ch1
    /\ UNCHANGED <<stdin, ch2, ch3, ch4, pref, pref_acc, links, printed,
                   stdout, exit, classVars>>

\* Err(e) => panic!("couldn't read line {}, {}", lineno, e)
ReadErr ==
    /\ alive(Reader)
    /\ lineno = Len(stdin)
    /\ panic(Reader, [what |-> "couldn't read line", lineno |-> lineno])
    /\ UNCHANGED <<stdin, lineno, ch1, ch2, ch3, ch4, pref, pref_acc, links,
                   printed, stdout, exit, classVars>>

\* lines() is exhausted: the closure returns
ReadEof ==
    /\ alive(Reader)
    /\ lineno = Len(stdin)
    /\ finish(Reader)
    /\ UNCHANGED <<stdin, lineno, ch1, ch2, ch3, ch4, pref, pref_acc, links,
                   printed, stdout, exit, classVars>>

(***************************************************************************)
(* gather_preformatted                                                     *)
(***************************************************************************)
\* an iteration that takes for a fence marker only the line that is the
\* marker and nothing more
GatherStep_exact ==
    /\ alive(Gather)
    /\ ch1 # << >>
    /\ ch1' = Tail(ch1)
    /\ LET i == Head(ch1)
       IN  IF i = Fence
             THEN pref' = ~pref /\ UNCHANGED <<ch2, st, stderr>>
           ELSE IF alive(Decode)
             THEN /\ ch2' = Append(ch2, <<pref, i>>)
                  /\ UNCHANGED <<pref, st, stderr>>
           ELSE panic(Gather, SendError) /\ UNCHANGED <<pref, ch2>>
    /\ UNCHANGED <<stdin, lineno, ch3, ch4, pref_acc, links, printed, stdout,
                   exit, classVars>>

\* one iteration of `for i in rx`
GatherStep ==
    /\ alive(Gather)
    /\ ch1 # << >>
    /\ ch1' = Tail(ch1)
    /\ LET i == Head(ch1)
       IN  IF StartsWith(i, Fence)
             THEN pref' = ~pref /\ UNCHANGED <<ch2, st, stderr>>
           ELSE IF alive(Decode)
             THEN /\ ch2' = Append(ch2, <<pref, i>>)
                  /\ UNCHANGED <<pref, st, stderr>>
           ELSE panic(Gather, SendError) /\ UNCHANGED <<pref, ch2>>
    /\ UNCHANGED <<stdin, lineno, ch3, ch4, pref_acc, links, printed, stdout,
                   exit, classVars>>

\* the channel is empty and its Sender dropped: the loop ends
GatherEnd ==
    /\ alive(Gather)
    /\ ch1 = << >> /\ ~alive(Reader)
    /\ finish(Gather)
    /\ UNCHANGED <<stdin, lineno, ch1, ch2, ch3, ch4, pref, pref_acc, links,
                   printed, stdout, exit, classVars>>

(***************************************************************************)
(* decode_lines                                                            *)
(***************************************************************************)
SliceError == [what |-> "byte index out of range"]

\* an iteration that trims the lines it buffers inside a fenced region
DecodeStep_trimmed ==
    /\ alive(Decode)
    /\ ch2 # << >>
    /\ ch2' = Tail(ch2)
    /\ LET p == Head(ch2)[1]
           l == Head(ch2)[2]
           v == Line_from(l)
       IN  IF p
             THEN \* in a preformatted block (both arms)
                  /\ pref_acc' = Append(pref_acc, trim(l))
                  /\ UNCHANGED <<ch3, st, stderr>>
           ELSE IF pref_acc = << >>
             THEN \* usual case
                  /\ pref_acc' = << >>
                  /\ IF v = Panics
                       THEN panic(Decode, SliceError) /\ UNCHANGED ch3
                     ELSE IF alive(Blocks)
                       THEN ch3' = Append(ch3, v) /\ UNCHANGED <<st, stderr>>
                     ELSE panic(Decode, SendError) /\ UNCHANGED ch3
           ELSE \* first line after a preformatted block
                IF ~alive(Blocks)
                  THEN panic(Decode, SendError) /\ UNCHANGED <<ch3, pref_acc>>
                ELSE /\ pref_acc' = << >>
                     /\ IF v = Panics
                          THEN /\ ch3' = Append(ch3, PreformattedL(pref_acc))
                               /\ panic(Decode, SliceError)
                          ELSE /\ ch3' = ch3 \o <<PreformattedL(pref_acc), v>>
                               /\ UNCHANGED <<st, stderr>>
    /\ UNCHANGED <<stdin, lineno, ch1, ch4, pref, links, printed, stdout,
                   exit, classVars>>

\* one iteration of `for (pref, line) in rx`
DecodeStep ==
    /\ alive(Decode)
    /\ ch2 # << >>
    /\ ch2' = Tail(ch2)
    /\ LET p == Head(ch2)[1]
           l == Head(ch2)[2]
           v == Line_from(l)
       IN  IF p
             THEN \* in a preformatted block (both arms)
                  /\ pref_acc' = Append(pref_acc, l)
                  /\ UNCHANGED <<ch3, st, stderr>>
           ELSE IF pref_acc = << >>
             THEN \* usual case
                  /\ pref_acc' = << >>
                  /\ IF v = Panics
                       THEN panic(Decode, SliceError) /\ UNCHANGED ch3
                     ELSE IF alive(Blocks)
                       THEN ch3' = Append(ch3, v) /\ UNCHANGED <<st, stderr>>
                     ELSE panic(Decode, SendError) /\ UNCHANGED ch3
           ELSE \* first line after a preformatted block
                IF ~alive(Blocks)
                  THEN panic(Decode, SendError) /\ UNCHANGED <<ch3, pref_acc>>
                ELSE /\ pref_acc' = << >>
                     /\ IF v = Panics
                          THEN /\ ch3' = Append(ch3, PreformattedL(pref_acc))
                               /\ panic(Decode, SliceError)
                          ELSE /\ ch3' = ch3 \o <<PreformattedL(pref_acc), v>>
                               /\ UNCHANGED <<st, stderr>>
    /\ UNCHANGED <<stdin, lineno, ch1, ch4, pref, links, printed, stdout,
                   exit, classVars>>

\* a decode_lines that returns without sending the buffered lines
DecodeEnd_noflush ==
    /\ alive(Decode)
    /\ ch2 = << >> /\ ~alive(Gather)
    /\ finish(Decode)
    /\ UNCHANGED <<stdin, lineno, ch1, ch2, ch3, ch4, pref, pref_acc, links,
                   printed, stdout, exit, classVars>>

\* after the loop: if !pref_acc.is_empty() { tx.send(..).unwrap() }
DecodeEnd ==
    /\ alive(Decode)
    /\ ch2 = << >> /\ ~alive(Gather)
    /\ IF pref_acc # << >> /\ ~alive(Blocks)
         THEN panic(Decode, SendError) /\ UNCHANGED ch3
         ELSE /\ ch3' = IF pref_acc # << >>
                          THEN Append(ch3, PreformattedL(pref_acc)) ELSE ch3
              /\ finish(Decode)
    /\ UNCHANGED <<stdin, lineno, ch1, ch2, ch4, pref, pref_acc, links,
                   printed, stdout, exit, classVars>>

(***************************************************************************)
(* blocks_of_lines                                                         *)
(***************************************************************************)
\* the block the arm of a flushing line sends after LinksB(links.clone())
BlockOfLine(line) ==
    CASE line.tag = "BlankL" -> << >>
      [] line.tag = "ParaL" -> <<ParaB(line.text)>>
      [] line.tag = "HeadingL" -> <<HeadingB(line.heading)>>
      [] line.tag = "PreformattedL" -> <<PreformattedB(line.lines)>>

\* a LinkL arm that puts the link at the front of links
LinkArm_front(link) ==
    /\ links' = <<link>> \o links
    /\ UNCHANGED <<ch4, st, stderr>>

\* LinkL(link) => links.push(link)
LinkArm(link) ==
    /\ links' = Append(links, link)
    /\ UNCHANGED <<ch4, st, stderr>>

\* a MalformedL arm that drops the line and carries on
MalformedArm_skip(m) == UNCHANGED <<ch4, links, st, stderr>>

\* MalformedL(m) => panic!("malformed line: {:?}", m)
MalformedArm(m) ==
    /\ panic(Blocks, [what |-> "malformed line", m |-> m])
    /\ UNCHANGED <<ch4, links>>

\* flushing arms that leave out links.clear()
FlushArm_noclear(line) ==
    IF alive(Main)
      THEN /\ ch4' = ch4 \o <<LinksB(links)>> \o BlockOfLine(line)
           /\ UNCHANGED <<links, st, stderr>>
      ELSE panic(Blocks, SendError) /\ UNCHANGED <<ch4, links>>

\* BlankL, ParaL, HeadingL, PreformattedL: tx.send(LinksB(links.clone())),
\* links.clear(), then the send of the line's own block, if it has one
FlushArm(line) ==
    IF alive(Main)
      THEN /\ ch4' = ch4 \o <<LinksB(links)>> \o BlockOfLine(line)
           /\ links' = << >>
           /\ UNCHANGED <<st, stderr>>
      ELSE panic(Blocks, SendError) /\ UNCHANGED <<ch4, links>>

\* one iteration of `for line in rx`
BlocksStep ==
    /\ alive(Blocks)
    /\ ch3 # << >>
    /\ ch3' = Tail(ch3)
    /\ LET line == Head(ch3)
       IN  IF line.tag = "LinkL" THEN LinkArm(line.link)
           ELSE IF line.tag = "MalformedL" THEN MalformedArm(line.kind)
           ELSE FlushArm(line)
    /\ UNCHANGED <<stdin, lineno, ch1, ch2, pref, pref_acc, printed, stdout,
                   exit, classVars>>

\* an end of blocks_of_lines that sends LinksB(links) whether or not links
\* is empty
BlocksEnd_always ==
    /\ alive(Blocks)
    /\ ch3 = << >> /\ ~alive(Decode)
    /\ IF ~alive(Main)
         THEN panic(Blocks, SendError) /\ UNCHANGED ch4
         ELSE /\ ch4' = Append(ch4, LinksB(links))
              /\ finish(Blocks)
    /\ UNCHANGED <<stdin, lineno, ch1, ch2, ch3, pref, pref_acc, links,
                   printed, stdout, exit, classVars>>

\* after the loop: if !links.is_empty() { tx.send(LinksB(links)).unwrap() }
BlocksEnd ==
    /\ alive(Blocks)
    /\ ch3 = << >> /\ ~alive(Decode)
    /\ IF links # << >> /\ ~alive(Main)
         THEN panic(Blocks, SendError) /\ UNCHANGED ch4
         ELSE /\ ch4' = IF links # << >> THEN Append(ch4, LinksB(links)) ELSE ch4
              /\ finish(Blocks)
    /\ UNCHANGED <<stdin, lineno, ch1, ch2, ch3, pref, pref_acc, links,
                   printed, stdout, exit, classVars>>

(***************************************************************************)
(* consume_blocks and main                                                 *)
(***************************************************************************)
\* one iteration of `for i in rx`: print!("{}", i)
ConsumeStep ==
    /\ alive(Main)
    /\ ch4 # << >>
    /\ ch4' = Tail(ch4)
    /\ printed' = Append(printed, Head(ch4))
    /\ stdout' = stdout \o Block_fmt(Head(ch4))
    /\ UNCHANGED <<stdin, lineno, ch1, ch2, ch3, st, pref, pref_acc, links,
                   stderr, exit, classVars>>

\* the exit status of a main that returns Result<(), ()>
ExitStatus(result) == IF result = "Ok" THEN 0 ELSE 1

\* the value consume_blocks returns once its loop ends
consume_blocks_result == "Ok"

\* a main that returns as soon as it finds its channel empty, whether or not
\* blocks_of_lines still holds the Sender
MainReturn_early ==
    /\ alive(Main)
    /\ ch4 = << >>
    /\ exit' = Some(ExitStatus(consume_blocks_result))
    /\ st' = [t \in Threads |->
                IF t = Main THEN "done"
                ELSE IF st[t] = "run" THEN "killed" ELSE st[t]]
    /\ UNCHANGED <<stdin, lineno, ch1, ch2, ch3, ch4, pref, pref_acc, links,
                   printed, stdout, stderr, classVars>>

\* the loop of consume_blocks ends, main returns its result and the process
\* exits, ending every thread that is still running
MainReturn ==
    /\ alive(Main)
    /\ ch4 = << >> /\ ~alive(Blocks)
    /\ exit' = Some(ExitStatus(consume_blocks_result))
    /\ st' = [t \in Threads |->
                IF t = Main THEN "done"
                ELSE IF st[t] = "run" THEN "killed" ELSE st[t]]
    /\ UNCHANGED <<stdin, lineno, ch1, ch2, ch3, ch4, pref, pref_acc, links,
                   printed, stdout, stderr, classVars>>

Next ==
    \/ ReadOk \/ ReadErr \/ ReadEof
    \/ GatherStep \/ GatherEnd
    \/ DecodeStep \/ DecodeEnd
    \/ BlocksStep \/ BlocksEnd
    \/ ConsumeStep \/ MainReturn

Spec == Init /\ [][Next]_vars

(***************************************************************************)
(* The classifier and the renderer on their own: Line::from applied to     *)
(* every string of at most MaxStrLen characters of Alphabet, and the       *)
(* Display of the Link or of the HeadingB it yields.                       *)
(***************************************************************************)
ClassifyInit ==
    /\ stdin = << >>
    /\ PipeInit
    /\ arg \in StringsUpTo(Alphabet, MaxStrLen)
    /\ cls = None /\ shown = None

Classify ==
    /\ cls = None
    /\ cls' = Some(Line_from(arg))
    /\ UNCHANGED <<arg, shown, pipeVars>>

Render ==
    /\ cls # None /\ shown = None
    /\ cls[1].tag \in {"LinkL", "HeadingL"}
    /\ shown' = Some(IF cls[1].tag = "LinkL"
                       THEN Link_fmt(cls[1].link)
                       ELSE Block_fmt(HeadingB(cls[1].heading)))
    /\ UNCHANGED <<arg, cls, pipeVars>>

ClassifyNext == Classify \/ Render

SpecClassify == ClassifyInit /\ [][ClassifyNext]_vars

(***************************************************************************)
(* The notions the properties are stated in.                               *)
(***************************************************************************)
IsPrefix(a, b) == Len(a) <= Len(b) /\ SubSeq(b, 1, Len(a)) = a
IsSuffix(a, b) == Len(a) <= Len(b) /\ SubSeq(b, Len(b) - Len(a) + 1, Len(b)) = a

Hashes(n) == [i \in 1..n |-> "#"]

\* the HeadingLevel of n `#` characters
heading_level(n) == CASE n = 1 -> "H1" [] n = 2 -> "H2" [] n = 3 -> "H3"

\* n `#` characters, exactly one space, at least one further character
WellFormedHeading(s, n) ==
    /\ Len(s) >= n + 2
    /\ SubSeq(s, 1, n) = Hashes(n)
    /\ s[n + 1] = SP
    /\ s[n + 2] # SP

IsWellFormedHeading(s) == \E n \in 1..3 : WellFormedHeading(s, n)

\* the marker, exactly one space, a non-empty url
WellFormedLink(s) ==
    /\ Len(s) >= 4
    /\ SubSeq(s, 1, 3) = <<"=", ">", SP>>
    /\ s[4] # SP

Spaces(s) == {j \in 1..Len(s) : s[j] = SP}
Min(S) == CHOOSE x \in S : \A y \in S : x <= y
Max(S) == CHOOSE x \in S : \A y \in S : x >= y

\* s without the whitespace at its end, said without TrimEnd: the prefix of
\* s that does not end in whitespace and is followed by whitespace only
IsRightTrimOf(r, s) ==
    /\ IsPrefix(r, s)
    /\ r = << >> \/ ~IsWhitespace(r[Len(r)])
    /\ \A j \in (Len(r) + 1)..Len(s) : IsWhitespace(s[j])

(***************************************************************************)
(* Properties of the classifier and the renderer, under SpecClassify.      *)
(***************************************************************************)

\* C3: every line that begins with `#` but is not N `#` (N in 1..3), exactly
\* one space and at least one further character is classified
\* Malformed(HeadingSyntaxError), whenever the classifier yields a value at
\* all.  (The code does not do this.)
C3_HeadingSyntaxError ==
    (/\ cls # None /\ cls[1] # Panics
     /\ StartsWith(arg, <<"#">>) /\ ~IsWellFormedHeading(arg))
        => cls[1] = MalformedL("MHeading")

\* C4: a line beginning with `=>` is classified Link, with a non-empty url,
\* exactly when the marker is followed by one space and a non-empty url, and
\* Malformed(LinkSyntaxError) otherwise.  (The code does not do this.)
C4_LinkUrlNonEmpty ==
    (cls # None /\ StartsWith(arg, <<"=", ">">>))
        => IF WellFormedLink(arg)
             THEN cls[1].tag = "LinkL" /\ cls[1].link.url # << >>
             ELSE cls[1] = MalformedL("MLink")

\* C5 as stated: a well-formed heading line of level N is classified
\* Heading(N, the text after the space) and the HeadingBlock renders as
\* N `#`, one space, that text and a blank line.
C5_HeadingAsStated ==
    \A n \in 1..3 :
        (cls # None /\ WellFormedHeading(arg, n))
            => LET text == SubSeq(arg, n + 2, Len(arg))
               IN  /\ cls[1] = HeadingL(Heading(heading_level(n), text))
                   /\ shown # None =>
                        shown[1] = Hashes(n) \o <<SP>> \o text \o <<NL, NL>>

\* C5, amended: the heading text is the text after the space without the
\* whitespace at its end, and the HeadingBlock renders as N `#`, one space,
\* that text and a blank line.
C5_HeadingRoundTrip ==
    \A n \in 1..3 :
        (cls # None /\ WellFormedHeading(arg, n))
            => /\ cls[1].tag = "HeadingL"
               /\ cls[1].heading.level = heading_level(n)
               /\ IsRightTrimOf(cls[1].heading.text, SubSeq(arg, n + 2, Len(arg)))
               /\ cls[1].heading.text # << >>
               /\ shown # None =>
                    shown[1] = Hashes(n) \o <<SP>> \o cls[1].heading.text
                                   \o <<NL, NL>>

\* a level 3 heading with whitespace at its end, classified and rendered
C5_Witness ==
    /\ shown # None
    /\ WellFormedHeading(arg, 3)
    /\ arg[Len(arg)] = SP

\* C6: `=> URL` is classified Link(URL, absent) and renders as `* [URL](URL)`
\* and a newline; `=> URL CAPTION`, the caption being all that follows the
\* second space, is classified Link(URL, CAPTION) and renders as
\* `* [CAPTION](URL)` and a newline.
C6_LinkRoundTrip ==
    (cls # None /\ WellFormedLink(arg))
        => LET rest == SubSeq(arg, 4, Len(arg))
               cut == IF Spaces(rest) = {} THEN Len(rest) + 1 ELSE Min(Spaces(rest))
               url == SubSeq(rest, 1, cut - 1)
               caption == SubSeq(rest, cut + 1, Len(rest))
           IN  IF Spaces(rest) = {}
                 THEN /\ cls[1] = LinkL(Link(url, None))
                      /\ shown # None =>
                           shown[1] = <<"*", SP, "[">> \o url \o <<"]", "(">>
                                          \o url \o <<")", NL>>
                 ELSE /\ cls[1] = LinkL(Link(url, Some(caption)))
                      /\ shown # None =>
                           shown[1] = <<"*", SP, "[">> \o caption \o <<"]", "(">>
                                          \o url \o <<")", NL>>

\* a link with a caption, classified and rendered
C6_Witness ==
    /\ shown # None
    /\ WellFormedLink(arg)
    /\ cls[1].link.tag # None
    /\ cls[1].link.tag[1] # << >>

(***************************************************************************)
(* The notions the properties of the pipeline are stated in.               *)
(***************************************************************************)
IsFenceLine(l) == StartsWith(l, Fence)

FenceLines(doc) == {k \in 1..Len(doc) : IsFenceLine(doc[k])}

\* line k is not a fence marker and an even number of fence markers precede it
Outside(doc, k) ==
    /\ ~IsFenceLine(doc[k])
    /\ Cardinality({j \in FenceLines(doc) : j < k}) % 2 = 0

\* line k is not a fence marker and an odd number of fence markers precede it
Inside(doc, k) ==
    /\ ~IsFenceLine(doc[k])
    /\ Cardinality({j \in FenceLines(doc) : j < k}) % 2 = 1

\* the lines outside the fenced regions that Line::from classifies as `tag`
LinesTagged(doc, tag) ==
    {k \in 1..Len(doc) : Outside(doc, k) /\ Line_from(doc[k]).tag = tag}

MalformedAt(doc) == LinesTagged(doc, "MalformedL")

FirstMalformed(doc) == Min(MalformedAt(doc))

\* no line of doc is classified Malformed and none makes the classifier panic
NoBadLine(doc) == LinesTagged(doc, "MalformedL") \cup LinesTagged(doc, "panic") = {}

\* The blocks of a document, stage by stage as the design describes them:
\* the fence tracker and the classifier (LinesOf), then the aggregator
\* (BlocksOfLines).  The classifier stops at a line it panics on.
RECURSIVE LinesOf(_, _, _)
LinesOf(doc, flag, buffer) ==
    LET flushed == IF buffer = << >> THEN << >> ELSE <<PreformattedL(buffer)>>
    IN  IF doc = << >> THEN flushed
        ELSE IF IsFenceLine(Head(doc)) THEN LinesOf(Tail(doc), ~flag, buffer)
        ELSE IF flag THEN LinesOf(Tail(doc), flag, Append(buffer, Head(doc)))
        ELSE IF Line_from(Head(doc)) = Panics THEN flushed
        ELSE flushed \o <<Line_from(Head(doc))>> \o LinesOf(Tail(doc), flag, << >>)

RECURSIVE BlocksOfLines(_, _)
BlocksOfLines(ls, pending) ==
    IF ls = << >>
      THEN IF pending = << >> THEN << >> ELSE <<LinksB(pending)>>
    ELSE IF Head(ls).tag = "LinkL"
      THEN BlocksOfLines(Tail(ls), Append(pending, Head(ls).link))
    ELSE IF Head(ls).tag = "MalformedL" THEN << >>
    ELSE <<LinksB(pending)>>
           \o (CASE Head(ls).tag = "BlankL" -> << >>
                 [] Head(ls).tag = "ParaL" -> <<ParaB(Head(ls).text)>>
                 [] Head(ls).tag = "HeadingL" -> <<HeadingB(Head(ls).heading)>>
                 [] Head(ls).tag = "PreformattedL" ->
                        <<PreformattedB(Head(ls).lines)>>)
           \o BlocksOfLines(Tail(ls), << >>)

BlocksOf(doc) == BlocksOfLines(LinesOf(doc, FALSE, << >>), << >>)

\* the run is over: main has returned
Exited == exit # None

\* some stage failed
StageFailed == \E t \in Threads : st[t] = "panicked"

(***************************************************************************)
(* Properties of the pipeline, under Spec.                                 *)
(***************************************************************************)

\* C1: the exit status is 0 on a clean end of input and non-zero whenever a
\* MalformedL reached blocks_of_lines or read_lines hit a read error.  (The
\* code does not do this: main returns Ok(()) whatever the threads did.)
C1_ExitStatus ==
    Exited =>
        /\ ~StageFailed => exit[1] = 0
        /\ (stderr[Blocks] # << >> /\ stderr[Blocks][1].what = "malformed line")
               => exit[1] # 0
        /\ (stderr[Reader] # << >> /\ stderr[Reader][1].what = "couldn't read line")
               => exit[1] # 0

\* C2: when the input holds a line that is classified Malformed, no block
\* derived from that line or from a line after it is ever written: what has
\* been written is a prefix of the blocks of the lines before it; and a run
\* on such an input ends with a stage failed.
C2_NothingAfterMalformed ==
    MalformedAt(stdin) # {}
        => /\ IsPrefix(printed,
                       BlocksOf(SubSeq(stdin, 1, FirstMalformed(stdin) - 1)))
           /\ Exited => StageFailed

\* blocks_of_lines has panicked on a malformed line that has lines before
\* and after it, blocks have been written and main has returned
C2_Witness ==
    /\ MalformedAt(stdin) # {}
    /\ 1 < FirstMalformed(stdin) /\ FirstMalformed(stdin) < Len(stdin)
    /\ st[Blocks] = "panicked"
    /\ printed # << >>
    /\ Exited

\* the elements of S in ascending order
RECURSIVE Ascending(_)
Ascending(S) == IF S = {} THEN << >> ELSE <<Min(S)>> \o Ascending(S \ {Min(S)})

\* the links of the LinksB blocks of bs in order, each with the position in
\* bs of the block that holds it
RECURSIVE LinksFrom(_, _)
LinksFrom(bs, b) ==
    IF b > Len(bs) THEN << >>
    ELSE (IF bs[b].tag = "LinksB"
            THEN [i \in 1..Len(bs[b].links) |->
                     [block |-> b, link |-> bs[b].links[i]]]
            ELSE << >>)
         \o LinksFrom(bs, b + 1)

\* decode_lines and blocks_of_lines have drained their channels and returned
Drained == Exited /\ st[Decode] = "done" /\ st[Blocks] = "done"

\* C7: the links written are those of the link lines, in their order; two
\* link lines next to each other are in the same LinksBlock, and two link
\* lines with a blank line between them are in different LinksBlocks, the
\* earlier link in the earlier block.
C7_LinksAggregate ==
    Drained =>
        LET at == Ascending(LinesTagged(stdin, "LinkL"))
            out == LinksFrom(printed, 1)
        IN  /\ Len(out) = Len(at)
            /\ \A p \in 1..Len(at) : out[p].link = Line_from(stdin[at[p]]).link
            /\ \A p \in 1..(Len(at) - 1) :
                 /\ at[p + 1] = at[p] + 1 => out[p].block = out[p + 1].block
                 /\ (\E k \in LinesTagged(stdin, "BlankL") :
                         at[p] < k /\ k < at[p + 1])
                       => out[p].block < out[p + 1].block

\* two links in one LinksBlock and, after the blank line, a third in another
C7_Witness ==
    /\ Drained
    /\ stdin = LinksDoc
    /\ printed = <<LinksB(<<Link(<<"u">>, None), Link(<<"v">>, Some(<<"c">>))>>),
                   LinksB(<<Link(<<"u">>, None)>>)>>

OddFences(doc) == Cardinality(FenceLines(doc)) % 2 = 1

\* the lines between the last fence marker and the end of the input
LinesAfterLastFence(doc) == SubSeq(doc, Max(FenceLines(doc)) + 1, Len(doc))

RECURSIVE PreformattedCount(_)
PreformattedCount(bs) ==
    IF bs = << >> THEN 0
    ELSE (IF Head(bs).tag = "PreformattedB" THEN Len(Head(bs).lines) ELSE 0)
         + PreformattedCount(Tail(bs))

\* a run on an input with an odd number of fence markers, no malformed line
\* and no read error is over
OddFencesRun ==
    /\ Exited
    /\ OddFences(stdin)
    /\ NoBadLine(stdin)
    /\ stderr[Reader] = << >>

TitleText ==
    <<"#", " ", "T", "i", "t", "l", "e", NL, NL, "*", " ", "[", "E", "x", "a",
      "m", "p", "l", "e", "]", "(", "h", "t", "t", "p", "s", ":", "/", "/", "e",
      "x", "a", "m", "p", "l", "e", ".", "o", "r", "g", ")", NL, NL, "p", "l",
      "a", "i", "n", " ", "t", "e", "x", "t", NL, NL>>

IsEmptyLinksB(b) == b.tag = "LinksB" /\ b.links = << >>

RECURSIVE WithoutEmptyLinksB(_)
WithoutEmptyLinksB(bs) ==
    IF bs = << >> THEN << >>
    ELSE (IF IsEmptyLinksB(Head(bs)) THEN << >> ELSE <<Head(bs)>>)
         \o WithoutEmptyLinksB(Tail(bs))

\* C9: the output for ["# Title", "", "=> https://example.org Example",
\* "plain text"] is TitleText; an empty LinksBlock contributes no bytes, so
\* the output is the renderings of the heading, the one-link LinksBlock and
\* the paragraph, in document order.
C9_TitleExample ==
    /\ (Exited /\ stdin = TitleDoc) =>
         /\ stdout = TitleText
         /\ WithoutEmptyLinksB(printed)
              = <<HeadingB(Heading("H1", <<"T", "i", "t", "l", "e">>)),
                  LinksB(<<Link(SubSeq(TitleDoc[3], 4, 22),
                                Some(SubSeq(TitleDoc[3], 24, 30)))>>),
                  ParaB(TitleDoc[4])>>
    /\ LET bs == WithoutEmptyLinksB(printed)
       IN  stdout = concat([i \in 1..Len(bs) |-> Block_fmt(bs[i])])

\* the example has run to its end, through two empty LinksBlocks
C9_Witness ==
    /\ Exited
    /\ stdin = TitleDoc
    /\ Len(printed) = 5
    /\ IsEmptyLinksB(printed[1]) /\ IsEmptyLinksB(printed[3])

\* C10: the error signalled for a malformed line carries the kind of that
\* line and its 1-based line number.  (The panic message of the code holds
\* the kind only.)
C10_KindAndLineNumber ==
    (stderr[Blocks] # << >> /\ stderr[Blocks][1].what = "malformed line")
        => LET e == stderr[Blocks][1]
               k == FirstMalformed(stdin)
           IN  /\ e.m = Line_from(stdin[k]).kind
               /\ "lineno" \in DOMAIN e
               /\ e.lineno = k

(***************************************************************************)
(* The pipeline under fair scheduling.  Standard input is finite and its    *)
(* reads return; a thread that can take a step eventually takes one.  All  *)
(* that is used of this is its consequence that the process does not stop  *)
(* while some thread can take a step.                                      *)
(***************************************************************************)
FairSpec == Spec /\ WF_vars(Next)

\* C11: under fair scheduling main eventually returns and no thread is left
\* running (waiting on a channel), also in runs where a stage panics.
C11_Terminates == <>(Exited /\ \A t \in Threads : ~alive(t))

\* main has returned after a stage panicked
C11_Witness ==
    /\ Exited
    /\ StageFailed
    /\ \A t \in Threads : ~alive(t)

\* what a line contributes to the output: nothing for a fence marker, the
\* raw line inside a fenced region, the link, text or heading outside
ItemOf(doc, k) ==
    LET v == Line_from(doc[k])
    IN  IF IsFenceLine(doc[k]) THEN << >>
        ELSE IF Inside(doc, k) THEN <<[kind |-> "pre", line |-> doc[k]]>>
        ELSE IF v.tag = "LinkL" THEN <<[kind |-> "link", link |-> v.link]>>
        ELSE IF v.tag = "ParaL" THEN <<[kind |-> "para", text |-> v.text]>>
        ELSE IF v.tag = "HeadingL"
          THEN <<[kind |-> "heading", heading |-> v.heading]>>
        ELSE << >>

\* the contributions of the lines of doc, in input order
ItemsOf(doc) == concat([k \in 1..Len(doc) |-> ItemOf(doc, k)])

\* the contributions a block holds, in the order it holds them
ItemsOfBlock(b) ==
    CASE b.tag = "PreformattedB" ->
             [i \in 1..Len(b.lines) |-> [kind |-> "pre", line |-> b.lines[i]]]
      [] b.tag = "LinksB" ->
             [i \in 1..Len(b.links) |-> [kind |-> "link", link |-> b.links[i]]]
      [] b.tag = "ParaB" -> <<[kind |-> "para", text |-> b.text]>>
      [] b.tag = "HeadingB" -> <<[kind |-> "heading", heading |-> b.heading]>>

ItemsOfBlocks(bs) == concat([i \in 1..Len(bs) |-> ItemsOfBlock(bs[i])])

\* C12: order is preserved end-to-end: what the written blocks hold, read
\* block after block and inside each block from first to last, is a prefix
\* of what the input lines contribute in input order, in every state of
\* every interleaving.
C12_OrderPreserved == IsPrefix(ItemsOfBlocks(printed), ItemsOf(stdin))

\* two links in one block, two lines in one PreformattedBlock and a
\* paragraph have been written
C12_Witness ==
    /\ Exited
    /\ stdin = MixedDoc
    /\ Len(printed) = 4
    /\ printed[1].tag = "LinksB" /\ Len(printed[1].links) = 2
    /\ printed[2].tag = "PreformattedB" /\ Len(printed[2].lines) = 2
    /\ printed[4].tag = "ParaB"

\* the fenced regions of doc, each the lines between its opening fence
\* marker and its closing one (or the end of the input), in order
RECURSIVE RegionsOf(_, _, _)
RegionsOf(doc, flag, region) ==
    IF doc = << >> THEN (IF flag THEN <<region>> ELSE << >>)
    ELSE IF IsFenceLine(Head(doc))
      THEN IF flag THEN <<region>> \o RegionsOf(Tail(doc), FALSE, << >>)
           ELSE RegionsOf(Tail(doc), TRUE, << >>)
    ELSE IF flag THEN RegionsOf(Tail(doc), flag, Append(region, Head(doc)))
    ELSE RegionsOf(Tail(doc), flag, region)

IsNonEmpty(s) == s # << >>

\* the regions that hold at least one line
NonEmptyRegions(doc) == SelectSeq(RegionsOf(doc, FALSE, << >>), IsNonEmpty)

IsPreformattedB(b) == b.tag = "PreformattedB"

\* the lines of each PreformattedBlock of bs, in order
PreformattedIn(bs) ==
    LET pre == SelectSeq(bs, IsPreformattedB)
    IN  [i \in 1..Len(pre) |-> pre[i].lines]

\* C13: each fenced region yields its own Preformatted record, holding the
\* lines of that region and only those, so that two regions separated only
\* by their fence markers yield two PreformattedBlocks.  (The code buffers
\* across such regions and writes one block.)
C13_BlockPerRegion ==
    (Drained /\ NoBadLine(stdin) /\ stderr[Reader] = << >>)
        => PreformattedIn(printed) = NonEmptyRegions(stdin)

\* read_lines has hit a read error
ReadFailed == st[Reader] = "panicked" /\ stderr[Reader] # << >>
                 /\ stderr[Reader][1] # SendError

\* C14: once the line source has failed with a read error nothing pending is
\* flushed: the end of decode_lines sends no PreformattedL out of a non-empty
\* pref_acc and the end of blocks_of_lines sends no LinksBlock out of
\* non-empty links.  (In the code the failed reader just drops its Sender,
\* which the stages after it see as the end of the input.)
C14_NoFlushAfterReadError ==
    [][ReadFailed =>
         /\ (st[Decode] = "run" /\ st'[Decode] = "done") => ch3' = ch3
         /\ (st[Blocks] = "run" /\ st'[Blocks] = "done") => ch4' = ch4]_vars

\* C15: a line of whitespace followed by a well-formed heading of level n is
\* classified a Heading of level n, not a Paragraph.  (Line::from matches
\* the characters of the line as read, so such a line falls to the last arm.)
C15_LeadingWhitespaceHeading ==
    \A n \in 1..3 :
        (/\ cls # None
         /\ TrimStart(arg) # arg
         /\ WellFormedHeading(TrimStart(arg), n))
            => /\ cls[1].tag = "HeadingL"
               /\ cls[1].heading.level = heading_level(n)

\* the lines at which blocks_of_lines flushes links
FlushPoint(line) == line.tag \in {"BlankL", "ParaL", "HeadingL", "PreformattedL"}

\* what a step has added to the channel to main
SentToMain == SubSeq(ch4', Len(ch4) + 1, Len(ch4'))

\* C16: at every Blank, Paragraph, Heading and Preformatted line the
\* aggregator sends exactly one LinksBlock, holding the pending links (also
\* when there are none), before the block of that line, and links is empty
\* afterwards; at the end of its input it sends a last LinksBlock if and only
\* if links is not empty.
C16_FlushPoints ==
    [][/\ (alive(Blocks) /\ ch3 # << >> /\ ch3' = Tail(ch3) /\ FlushPoint(Head(ch3)))
          => LET line == Head(ch3)
             IN  /\ IsPrefix(ch4, ch4')
                 /\ links' = << >>
                 /\ SentToMain =
                      <<LinksB(links)>> \o
                        (CASE line.tag = "BlankL" -> << >>
                           [] line.tag = "ParaL" -> <<ParaB(line.text)>>
                           [] line.tag = "HeadingL" -> <<HeadingB(line.heading)>>
                           [] line.tag = "PreformattedL" -> <<PreformattedB(line.lines)>>)
       /\ (st[Blocks] = "run" /\ st'[Blocks] = "done")
          => /\ IsPrefix(ch4, ch4')
             /\ SentToMain = IF links # << >> THEN <<LinksB(links)>> ELSE << >>]_vars

\* a link flushed by a paragraph, an empty LinksBlock sent at a blank line,
\* and nothing sent at the end
C16_Witness ==
    /\ Exited
    /\ stdin = <<LinkLine, ParaLine, BlankLine>>
    /\ printed = <<LinksB(<<Link(<<"u">>, None)>>), ParaB(<<"p">>), LinksB(<< >>)>>
    /\ links = << >>

\* C17: gather_preformatted takes the lines of the input one by one in their
\* order; a line whose first three characters are the fence marker is sent
\* nowhere and toggles the flag; any other line is sent on once, tagged with
\* the flag, which is the parity of the number of fence markers before it
\* (false before the first).
C17_FenceTracker ==
    [][(alive(Gather) /\ ch1 # << >> /\ ch1' = Tail(ch1))
         => LET i == Head(ch1)
                k == lineno - Len(ch1) + 1
                odd == Cardinality({j \in FenceLines(stdin) : j < k}) % 2 = 1
            IN  /\ i = stdin[k]
                /\ pref = odd
                /\ IF IsFenceLine(i)
                     THEN ch2' = ch2 /\ pref' = ~pref
                     ELSE /\ pref' = pref
                          /\ alive(Decode) => ch2' = Append(ch2, <<pref, i>>)]_vars

\* a marker with text after it opens a region, a bare marker closes it, and
\* neither is written
C17_Witness ==
    /\ Exited
    /\ stdin = InfoFenceDoc
    /\ printed = <<LinksB(<< >>), PreformattedB(<<BadLinkLine>>),
                   LinksB(<< >>), ParaB(<<"p">>)>>

\* the lines of doc inside its fenced regions, in order
InsideLines(doc) ==
    LET at == Ascending({k \in 1..Len(doc) : Inside(doc, k)})
    IN  [p \in 1..Len(at) |-> doc[at[p]]]

\* C18: a line that reaches decode_lines with the flag up is not classified:
\* the step that takes it appends it as it is to pref_acc, sends nothing and
\* does not fail, whatever the line starts with; and the lines of the
\* PreformattedBlocks written are the lines inside the fenced regions,
\* unchanged and in order, all of them once the input is drained.
C18_InsideVerbatim ==
    /\ [](/\ IsPrefix(concat(PreformattedIn(printed)), InsideLines(stdin))
          /\ (Drained /\ NoBadLine(stdin))
               => concat(PreformattedIn(printed)) = InsideLines(stdin))
    /\ [][(alive(Decode) /\ ch2 # << >> /\ ch2' = Tail(ch2) /\ Head(ch2)[1])
            => /\ pref_acc' = Append(pref_acc, Head(ch2)[2])
               /\ ch3' = ch3
               /\ st'[Decode] = "run"]_vars

\* a malformed link line and a heading line of `#` and whitespace, inside a
\* fenced region, written as they are
C18_Witness ==
    /\ Exited
    /\ stdin = <<FenceLine, BadLinkLine, SliceLine>>
    /\ printed = <<LinksB(<< >>), PreformattedB(<<BadLinkLine, SliceLine>>)>>
    /\ stdout = Fence \o <<NL>> \o BadLinkLine \o <<NL>> \o SliceLine \o <<NL>>
                  \o Fence \o <<NL, NL>>
    /\ ~StageFailed

\* C19: Line::from returns a Blank, Link, Heading, Paragraph or Malformed line
\* for every string and never panics: the slice make_heading takes of the
\* trimmed line starts within it.  (For `#`, a space and only whitespace
\* after it the trimmed line is shorter than the offset.)
C19_ClassificationTotal ==
    cls # None
        => /\ cls[1] # Panics
           /\ cls[1].tag \in {"BlankL", "LinkL", "HeadingL", "ParaL", "MalformedL"}

\* C20: the blocks written depend on the lines of the input alone, not on
\* the order in which the five threads take their steps: at any moment what
\* has been written is a prefix of the blocks of the input, and when main
\* has returned it is all of them, also when a stage has panicked on a
\* malformed line and when read_lines has failed after the last line.
C20_ScheduleIndependent ==
    /\ IsPrefix(printed, BlocksOf(stdin))
    /\ Exited => /\ printed = BlocksOf(stdin)
                 /\ stdout = concat([i \in 1..Len(printed) |-> Block_fmt(printed[i])])

\* main has returned after blocks_of_lines panicked on a malformed line and
\* decode_lines, with a line still to send, failed on its closed channel
C20_Witness ==
    /\ Exited
    /\ stdin = <<ParaLine, BadLinkLine, LinkLine>>
    /\ st[Blocks] = "panicked"
    /\ st[Decode] = "panicked"
    /\ printed = <<LinksB(<< >>), ParaB(<<"p">>)>>
====
